---- MODULE Spec2Model ----
(***************************************************************************)
(* The write-then-read sync probe of src/auth-test.js (runTests, steps 5   *)
(* to cleanup): the read subscription and its one-shot latch, the write    *)
(* confirmation wait, the two timers and the caller's reporting.           *)
(* The relay server of the same file (lines 314-358) is a second program,  *)
(* specified by RelaySpec.                                                 *)
(*                                                                         *)
(* JavaScript runs each callback to completion, so every synchronous       *)
(* stretch of runTests is one action and the store's callbacks and the     *)
(* timers run only while runTests is suspended at an await.                *)
(***************************************************************************)
EXTENDS Integers, Sequences, FiniteSets, TLC

VARIABLES
    pc,            \* position of runTests
    loginSuccess,  \* loginResult.success
    testData,      \* the object written (fields of testData, line 109)
    hasOff,        \* dataNode.off exists
    readTimeout,   \* the 15000 ms timer: "unset", "armed", "cleared", "fired"
    called,        \* the one-shot latch
    unsubscribe,   \* "null" or "fn"
    registered,    \* callback is on the store's listener list of dataNode
    readState,     \* readPromise: "none", "pending", "resolved", "rejected"
    readResult,    \* value readPromise resolved with
    readError,     \* message readPromise rejected with
    writeTimeout,  \* the 5000 ms timer: "unset", "armed", "cleared", "fired"
    writeState,    \* write promise: "none", "pending", "resolved", "rejected"
    writeError,    \* message the write promise rejected with
    reported,      \* what the caller logged for the probe
    reportedData,  \* the data logged with "Data read successfully"
    reportedError, \* the message logged with "Read error" / "Write error"
    exitCode,      \* -1 while running, else the argument of process.exit
    \* history of the run, read by the properties only
    onCalled,      \* dataNode.on(callback) has been called
    putCalled,     \* dataNode.put has been called
    unsubCalls,    \* calls of the handle returned by dataNode.on
    offCalls,      \* calls of dataNode.off(callback)
    deregThrew,    \* a deregistration call threw
    nInvocations,  \* number of callback invocations so far
    firstDelivered,\* first delivered value that is non-null and a scalar or an
                   \* object with one of the expected keys (NoValue before that)
    accepted,      \* the value whose invocation set the latch (NoValue before)
    nLate,         \* number of callback invocations that found the latch set
    nAcks,         \* number of ack callback invocations so far
    firstAck,      \* the value of the first ack callback invocation
    readAwaited,   \* runTests reached "await readPromise"
    argAfter,      \* the accepted argument object as the callback left it
    cleanupLogout, \* the logout of the finally block: "none", "pending",
                   \* "ok", "threw"
    \* the relay server (lines 314-358), a program of its own
    relayPc,       \* "off", "start", "running", "exited"
    env,           \* process.env: the five variables the relay reads
    config,        \* the config object of line 318
    holsterFile,   \* the `file` option passed to Holster (line 344)
    server,        \* the HTTP listener: "none", "listening", "closing", "closed"
    connections,   \* open connections of the HTTP listener
    closeCallbacks,\* callbacks waiting for the listener's 'close' event
    signals,       \* the termination signals received so far
    relayExit      \* -1 while running, else the argument of process.exit

vars == <<pc, loginSuccess, testData, hasOff, readTimeout, called, unsubscribe,
          registered, readState, readResult, readError, writeTimeout,
          writeState, writeError, reported, reportedData, reportedError,
          exitCode, onCalled, putCalled, unsubCalls, offCalls, deregThrew,
          nInvocations, firstDelivered, accepted, nLate, nAcks, firstAck,
          readAwaited, argAfter, cleanupLogout, relayPc, env,
          config, holsterFile, server, connections, closeCallbacks, signals,
          relayExit>>

(***************************************************************************)
(* Bounds of the model.                                                    *)
(***************************************************************************)
MaxInvocations == 2   \* callback invocations by the store in one run
MaxAcks == 2          \* ack callback invocations by the store in one run
MaxOpen == 2          \* connections open at the relay's listener at a time
MaxSignals == 2       \* termination signals sent to the relay

(***************************************************************************)
(* Timer policies of the source, in milliseconds.                          *)
(***************************************************************************)
READ_TIMEOUT_MS == 15000
WRITE_TIMEOUT_MS == 5000
SYNC_WAIT_MS == 1000

(***************************************************************************)
(* JavaScript values.  A field value or scalar is a tagged string:         *)
(* "s:..." a string, "n:..." a number, "b:..." a boolean, "o:..." an       *)
(* object.  A value is a record: kind "null", "undefined", "scalar" (v     *)
(* holds it) or "object" (f maps its own keys to field values).            *)
(***************************************************************************)
NoFields == [k \in {} |-> ""]

Null == [kind |-> "null", v |-> "", f |-> NoFields]
Undefined == [kind |-> "undefined", v |-> "", f |-> NoFields]
NoValue == [kind |-> "none", v |-> "", f |-> NoFields]

Scalar(x) == [kind |-> "scalar", v |-> x, f |-> NoFields]
Object(fields) == [kind |-> "object", v |-> "", f |-> fields]

\* the falsy primitives among the tagged strings
Falsy == {"s:", "n:0", "b:false", "undefined", "null"}

Truthy(x) == x \notin Falsy

\* value[k]: undefined when the object has no such key
Get(value, k) == IF k \in DOMAIN value.f THEN value.f[k] ELSE "undefined"

\* typeof value === 'object'
TypeofObject(value) == value.kind \in {"object", "null"}

(***************************************************************************)
(* Strings whose characters matter are sequences of characters.            *)
(***************************************************************************)
ErrorMarker == <<"e", "r", "r", "o", "r">>

WriteTimeoutMessage ==
    <<"W", "r", "i", "t", "e", " ", "t", "i", "m", "e", "o", "u", "t">>

ReadTimeoutMessage ==
    <<"R", "e", "a", "d", " ", "t", "i", "m", "e", "o", "u", "t", " ",
      "a", "f", "t", "e", "r", " ", "1", "5", " ", "s", "e", "c", "o", "n", "d", "s">>

NoMessage == <<"-">>

\* the message of an exception thrown by the store while the probe is built
ThrownMessage == <<"t", "h", "r", "o", "w", "n">>

\* String.prototype.startsWith
StartsWith(str, prefix) ==
    /\ Len(str) >= Len(prefix)
    /\ SubSeq(str, 1, Len(prefix)) = prefix

(***************************************************************************)
(* Ack values: kind "undefined", "null", "string" (s holds the characters),*)
(* "number" or "object".                                                   *)
(***************************************************************************)
AckString(chars) == [kind |-> "string", s |-> chars]
AckOther(k) == [kind |-> k, s |-> <<>>]

NoAck == AckOther("none")

AckValues ==
    { AckOther("undefined"), AckOther("null"), AckOther("object"),
      AckString(<<>>),
      AckString(<<"o", "k">>),
      AckString(ErrorMarker),
      AckString(ErrorMarker \o <<":", " ", "x">>),
      AckString(<<"e", "r", "r">>),
      AckString(<<"E", "r", "r", "o", "r">>),
      AckString(WriteTimeoutMessage) }

\* ack is truthy
AckTruthy(ack) ==
    \/ ack.kind = "object"
    \/ ack.kind = "string" /\ ack.s # <<>>

\* mutant of IsErrorAck: every non-empty string ack is taken for an error
IsErrorAck_AnyString(ack) ==
    /\ AckTruthy(ack)
    /\ ack.kind = "string"

\* line 197: ack && typeof ack === 'string' && ack.startsWith('error')
IsErrorAck(ack) ==
    /\ AckTruthy(ack)
    /\ ack.kind = "string"
    /\ StartsWith(ack.s, ErrorMarker)

(***************************************************************************)
(* The values of the model.                                                *)
(***************************************************************************)
ExpectedKeys == {"message", "timestamp", "username"}
MetadataKeys == {"_", "#"}

Message == "s:Hello from Shogun Core + Holster!"
Username == "s:testuser_1"

\* Date.now() at line 111: two possible clock readings
Timestamps == {"n:1700000000000", "n:1700000000001"}

\* line 109-113: testData
TestRecord(ts) ==
    Object([k \in ExpectedKeys |->
              CASE k = "message" -> Message
                [] k = "timestamp" -> ts
                [] k = "username" -> Username])

TestRecords == {TestRecord(ts) : ts \in Timestamps}

\* the store's copy of a record: the record with its metadata fields added
WithMetadata(value) ==
    Object([k \in DOMAIN value.f \cup MetadataKeys |->
              IF k = "_" THEN "o:meta"
              ELSE IF k = "#" THEN "s:test/data"
              ELSE value.f[k]])

\* a record whose expected fields all hold falsy values
FalsyRecord ==
    Object([k \in ExpectedKeys |-> IF k = "timestamp" THEN "n:0" ELSE "s:"])

AllKeys == ExpectedKeys \cup MetadataKeys

\* the keys a delivered object may have: the store delivers whole records,
\* records without metadata, bare metadata, nothing, or partial records
KeySets ==
    { AllKeys, ExpectedKeys, MetadataKeys, {},
      {"message", "#"}, {"timestamp", "_"} }

Restrict(value, ks) == Object([k \in DOMAIN value.f \cap ks |-> value.f[k]])

Objects ==
    { Restrict(WithMetadata(r), ks) :
        r \in TestRecords \cup {FalsyRecord}, ks \in KeySets }

Scalars == {Scalar("s:"), Scalar("n:42")}

\* everything the store may pass to the subscription callback
Values == {Null, Undefined} \cup Scalars \cup Objects

(***************************************************************************)
(* The subscription callback (lines 126-179), as a function of the state   *)
(* its closure holds.  `throws` says whether the deregistration call, if   *)
(* one is made by this invocation, throws.                                 *)
(***************************************************************************)
ReadSide ==
    [ called |-> called, unsubscribe |-> unsubscribe,
      readTimeout |-> readTimeout, registered |-> registered,
      readState |-> readState, readResult |-> readResult,
      unsubCalls |-> unsubCalls, offCalls |-> offCalls,
      deregThrew |-> deregThrew, accepted |-> accepted,
      argAfter |-> argAfter ]

\* line 131: value.message || value.timestamp || value.username
HasExpectedFields(value) ==
    \/ Truthy(Get(value, "message"))
    \/ Truthy(Get(value, "timestamp"))
    \/ Truthy(Get(value, "username"))

\* mutant of CleanValue: only '_' is deleted
CleanValue_KeepsSoul(value) ==
    Object([k \in DOMAIN value.f \ {"_"} |-> value.f[k]])

\* lines 137-142: a shallow copy without the keys '_' and '#'
CleanValue(value) ==
    Object([k \in DOMAIN value.f \ {"_", "#"} |-> value.f[k]])

\* mutant of ArgumentAfter: cleanValue is the argument itself, not a copy
ArgumentAfter_Aliased(value) ==
    IF value.kind = "object"
    THEN Object([k \in DOMAIN value.f \ {"_", "#"} |-> value.f[k]])
    ELSE value

\* lines 137-142: the deletes act on the copy made by { ...value }, so the
\* argument keeps every key it had
ArgumentAfter(value) == value

\* clearTimeout: cancels a timer that is still pending, else does nothing
ClearTimeout(timer) == IF timer = "armed" THEN "cleared" ELSE timer

\* mutant of Unsubscribe: off(callback) is called whenever the node has it,
\* also after the handle was called
Unsubscribe_Both(s, throws) ==
    LET u == IF s.unsubscribe = "fn"
             THEN [s EXCEPT !.unsubCalls = @ + 1,
                            !.registered = IF throws THEN @ ELSE FALSE,
                            !.deregThrew = @ \/ throws]
             ELSE s
    IN IF hasOff
       THEN [u EXCEPT !.offCalls = @ + 1,
                      !.registered = IF throws THEN @ ELSE FALSE,
                      !.deregThrew = @ \/ throws]
       ELSE u

\* lines 145-153 and 165-173: the handle returned by on(), else off(callback);
\* a call that returns removes the callback, a call that throws is swallowed
Unsubscribe(s, throws) ==
    IF s.unsubscribe = "fn"
    THEN [s EXCEPT !.unsubCalls = @ + 1,
                   !.registered = IF throws THEN @ ELSE FALSE,
                   !.deregThrew = @ \/ throws]
    ELSE IF hasOff
    THEN [s EXCEPT !.offCalls = @ + 1,
                   !.registered = IF throws THEN @ ELSE FALSE,
                   !.deregThrew = @ \/ throws]
    ELSE s

\* mutant of Resolve: a settled promise is settled again
Resolve_Unguarded(s, result) ==
    [s EXCEPT !.readState = "resolved", !.readResult = result]

\* resolve(result): settles readPromise unless it is settled already
Resolve(s, result) ==
    IF s.readState = "pending"
    THEN [s EXCEPT !.readState = "resolved", !.readResult = result]
    ELSE s

\* mutant of Accept: the latch is set but never tested
Accept_NoLatch(s, value, result, throws) ==
    Resolve(Unsubscribe([s EXCEPT !.called = TRUE,
                                  !.readTimeout = ClearTimeout(@),
                                  !.accepted = value],
                        throws),
            result)

\* mutant of Accept: no try/catch around the deregistration, so a throw
\* leaves the callback before resolve
Accept_ThrowPropagates(s, value, result, throws) ==
    IF s.called THEN s
    ELSE LET u == Unsubscribe([s EXCEPT !.called = TRUE,
                                        !.readTimeout = ClearTimeout(@),
                                        !.accepted = value],
                              throws)
         IN IF u.deregThrew /\ ~s.deregThrew THEN u ELSE Resolve(u, result)

\* lines 132-156 and 160-176: latch, cancel the timer, deregister, resolve
Accept(s, value, result, throws) ==
    IF s.called THEN s
    ELSE Resolve(Unsubscribe([s EXCEPT !.called = TRUE,
                                       !.readTimeout = ClearTimeout(@),
                                       !.accepted = value,
                                       !.argAfter = ArgumentAfter(value)],
                             throws),
                 result)

\* lines 126-179
Callback(s, value, throws) ==
    IF value.kind \notin {"null", "undefined"}
    THEN IF TypeofObject(value)
         THEN IF HasExpectedFields(value)
              THEN Accept(s, value, CleanValue(value), throws)
              ELSE s
         ELSE Accept(s, value, value, throws)
    ELSE s

\* the claims' notion of a qualifying value: non-null and either a non-object
\* scalar or an object that contains one of the expected keys
Qualifies(value) ==
    /\ value.kind \notin {"null", "undefined"}
    /\ \/ value.kind = "scalar"
       \/ value.kind = "object" /\ DOMAIN value.f \cap ExpectedKeys # {}

NoteDelivered(first, value) ==
    IF first = NoValue /\ Qualifies(value) THEN value ELSE first

(***************************************************************************)
(* The relay server (lines 314-358): its configuration from the            *)
(* environment.  An environment variable is unset (undefined) or a string  *)
(* of characters.                                                          *)
(***************************************************************************)
EnvString(chars) == [kind |-> "string", s |-> chars]
EnvUnset == [kind |-> "undefined", s |-> <<>>]

\* a string or undefined is truthy unless it is '' or undefined
EnvTruthy(e) == e.kind = "string" /\ e.s # <<>>

TrueLiteral == <<"t", "r", "u", "e">>
DEFAULT_HOST == <<"0", ".", "0", ".", "0", ".", "0">>
DEFAULT_STORAGE_PATH ==
    <<".", "/", "h", "o", "l", "s", "t", "e", "r", "-", "d", "a", "t", "a">>
DEFAULT_PORT == 8766
DEFAULT_MAX_CONNECTIONS == 100

\* numbers as parseInt returns them: NaN or an integer
NaN == [nan |-> TRUE, n |-> 0]
Num(i) == [nan |-> FALSE, n |-> i]

DigitChars == {"0", "1", "2", "3", "4", "5", "6", "7", "8", "9"}

DigitValue(c) ==
    CASE c = "0" -> 0 [] c = "1" -> 1 [] c = "2" -> 2 [] c = "3" -> 3
      [] c = "4" -> 4 [] c = "5" -> 5 [] c = "6" -> 6 [] c = "7" -> 7
      [] c = "8" -> 8 [] c = "9" -> 9

\* the value of the digits of chars from position i up to the first
\* character that is no digit
RECURSIVE ParseDigits(_, _, _)
ParseDigits(chars, i, acc) ==
    IF i > Len(chars) \/ chars[i] \notin DigitChars
    THEN acc
    ELSE ParseDigits(chars, i + 1, acc * 10 + DigitValue(chars[i]))

RECURSIVE SkipSpaces(_)
SkipSpaces(chars) ==
    IF chars # <<>> /\ Head(chars) = " " THEN SkipSpaces(Tail(chars)) ELSE chars

\* parseInt(e) in radix 10: leading blanks, an optional sign, then digits up
\* to the first other character; NaN when there is no digit (undefined is
\* converted to the string 'undefined')
ParseInt(e) ==
    IF e.kind # "string" THEN NaN
    ELSE LET t == SkipSpaces(e.s)
             signed == t # <<>> /\ Head(t) \in {"-", "+"}
             d == IF signed THEN Tail(t) ELSE t
         IN IF d = <<>> \/ Head(d) \notin DigitChars THEN NaN
            ELSE IF signed /\ Head(t) = "-"
            THEN Num(0 - ParseDigits(d, 1, 0))
            ELSE Num(ParseDigits(d, 1, 0))

\* number || default: NaN and 0 are falsy
NumberOr(x, default) == IF x.nan \/ x.n = 0 THEN default ELSE x.n

\* string || default
StringOr(e, default) == IF EnvTruthy(e) THEN e.s ELSE default

\* line 321: process.env.HOLSTER_RELAY_STORAGE === 'true' || true
StorageEnabled(e) == (e.kind = "string" /\ e.s = TrueLiteral) \/ TRUE

\* lines 318-324
RelayConfig(e) ==
    [ host |-> StringOr(e.host, DEFAULT_HOST),
      port |-> NumberOr(ParseInt(e.port), DEFAULT_PORT),
      storageEnabled |-> StorageEnabled(e.storage),
      storagePath |-> StringOr(e.storagePath, DEFAULT_STORAGE_PATH),
      maxConnections |-> NumberOr(ParseInt(e.maxConnections),
                                  DEFAULT_MAX_CONNECTIONS) ]

\* line 344: config.storageEnabled ? config.storagePath : undefined
HolsterFile(c) ==
    IF c.storageEnabled THEN EnvString(c.storagePath) ELSE EnvUnset

\* the environments of the model
StorageSettings ==
    { EnvUnset, EnvString(TrueLiteral), EnvString(<<"f", "a", "l", "s", "e">>),
      EnvString(<<"0">>), EnvString(<<>>) }
PortSettings ==
    { EnvUnset, EnvString(<<"9", "0", "0", "0">>), EnvString(<<"0">>),
      EnvString(<<"a", "b", "c">>) }
HostSettings == { EnvUnset, EnvString(<<"l", "o", "c", "a", "l", "h", "o", "s", "t">>) }
PathSettings == { EnvUnset, EnvString(<<"/", "d", "a", "t", "a">>) }
MaxConnectionsSettings == { EnvUnset, EnvString(<<" ", "5", "x">>) }

Environments ==
    [ host : HostSettings, port : PortSettings, storage : StorageSettings,
      storagePath : PathSettings, maxConnections : MaxConnectionsSettings ]

NoEnvironment ==
    [ host |-> EnvUnset, port |-> EnvUnset, storage |-> EnvUnset,
      storagePath |-> EnvUnset, maxConnections |-> EnvUnset ]

\* the config object before line 318 has run
NoConfig ==
    [ host |-> <<>>, port |-> 0, storageEnabled |-> FALSE,
      storagePath |-> <<>>, maxConnections |-> 0 ]

TerminationSignals == {"SIGTERM", "SIGINT"}

(***************************************************************************)
(* The state after construction: runTests has signed up and is about to    *)
(* learn the result of login (line 94); no probe has been built.           *)
(***************************************************************************)
readVars == <<readTimeout, called, unsubscribe, registered, readState,
              readResult, readError, unsubCalls, offCalls, deregThrew,
              accepted, argAfter>>
writeVars == <<writeTimeout, writeState, writeError>>
reportVars == <<reported, reportedData, reportedError>>
probeVars == <<testData, hasOff>>
endVars == <<cleanupLogout>>
relayVars == <<relayPc, env, config, holsterFile, server, connections,
               closeCallbacks, signals, relayExit>>
deliveryVars == <<nInvocations, firstDelivered, nLate>>
ackVars == <<nAcks, firstAck>>

ScriptInit ==
    /\ pc = "step5"
    /\ loginSuccess = FALSE
    /\ testData = NoValue
    /\ hasOff = FALSE
    /\ readTimeout = "unset"
    /\ called = FALSE
    /\ unsubscribe = "null"
    /\ registered = FALSE
    /\ readState = "none"
    /\ readResult = NoValue
    /\ readError = NoMessage
    /\ writeTimeout = "unset"
    /\ writeState = "none"
    /\ writeError = NoMessage
    /\ reported = "none"
    /\ reportedData = NoValue
    /\ reportedError = NoMessage
    /\ exitCode = -1
    /\ onCalled = FALSE
    /\ putCalled = FALSE
    /\ unsubCalls = 0
    /\ offCalls = 0
    /\ deregThrew = FALSE
    /\ nInvocations = 0
    /\ firstDelivered = NoValue
    /\ accepted = NoValue
    /\ nLate = 0
    /\ nAcks = 0
    /\ firstAck = NoAck
    /\ readAwaited = FALSE
    /\ argAfter = NoValue
    /\ cleanupLogout = "none"

\* the relay before its module body has run
RelayLoaded(pos) ==
    /\ relayPc = pos
    /\ config = NoConfig
    /\ holsterFile = EnvUnset
    /\ server = "none"
    /\ connections = 0
    /\ closeCallbacks = 0
    /\ signals = <<>>
    /\ relayExit = -1

\* the test script is run; the relay of the same file is not
Init ==
    /\ ScriptInit
    /\ RelayLoaded("off")
    /\ env = NoEnvironment

\* the closure state of the callback is set from a record
SetReadSide(s) ==
    /\ called' = s.called
    /\ unsubscribe' = s.unsubscribe
    /\ readTimeout' = s.readTimeout
    /\ registered' = s.registered
    /\ readState' = s.readState
    /\ readResult' = s.readResult
    /\ unsubCalls' = s.unsubCalls
    /\ offCalls' = s.offCalls
    /\ deregThrew' = s.deregThrew
    /\ accepted' = s.accepted
    /\ argAfter' = s.argAfter

(***************************************************************************)
(* runTests, one action per synchronous stretch.                           *)
(***************************************************************************)
\* lines 94-105: the login result decides whether the probe runs
LoginResult ==
    /\ pc = "step5"
    /\ \E success \in BOOLEAN :
         /\ loginSuccess' = success
         /\ pc' = IF success THEN "step6" ELSE "step9"
    /\ UNCHANGED <<relayVars, endVars, probeVars, readVars, writeVars, reportVars, exitCode,
                   onCalled, putCalled, deliveryVars, ackVars, readAwaited>>

\* lines 109-116: testData and dataNode
BuildProbe ==
    /\ pc = "step6"
    /\ testData' \in TestRecords
    /\ hasOff' \in BOOLEAN
    /\ pc' = "readPromise"
    /\ UNCHANGED <<relayVars, endVars, loginSuccess, readVars, writeVars, reportVars, exitCode,
                   onCalled, putCalled, deliveryVars, ackVars, readAwaited>>

\* lines 115-116 and 225-229: holster.get or testNode.next throws; the catch
\* of the probe logs it and the run goes on with step 8
BuildProbeThrows ==
    /\ pc = "step6"
    /\ testData' \in TestRecords
    /\ reported' = "writeError"
    /\ reportedError' = ThrownMessage
    /\ pc' = "step8"
    /\ UNCHANGED <<relayVars, endVars, loginSuccess, hasOff, readVars, writeVars,
                   reportedData, exitCode, onCalled, putCalled, deliveryVars,
                   ackVars, readAwaited>>

\* lines 119-187: the executor of readPromise.  It arms the read timer and
\* calls dataNode.on(callback); the store may invoke the callback with a
\* value it already holds before on() returns, while unsubscribe is still
\* null; then the returned handle is kept if it is a function.
Subscribe ==
    /\ pc = "readPromise"
    /\ \E returnsFn \in BOOLEAN, sync \in {NoValue} \cup Values, throws \in BOOLEAN :
         LET s0 == [ReadSide EXCEPT !.readTimeout = "armed",
                                    !.called = FALSE,
                                    !.unsubscribe = "null",
                                    !.readState = "pending",
                                    !.registered = TRUE]
             s1 == IF sync = NoValue THEN s0 ELSE Callback(s0, sync, throws)
         IN /\ SetReadSide([s1 EXCEPT !.unsubscribe =
                                         IF returnsFn THEN "fn" ELSE "null"])
            /\ nInvocations' = IF sync = NoValue THEN 0 ELSE 1
            /\ firstDelivered' = NoteDelivered(firstDelivered, sync)
    /\ nLate' = 0
    /\ onCalled' = TRUE
    /\ pc' = "put"
    /\ UNCHANGED <<relayVars, endVars, loginSuccess, probeVars, readError, writeVars, reportVars,
                   exitCode, putCalled, ackVars, readAwaited>>

\* mutant of Put: the write is issued before the subscription is set up
Put_BeforeSubscribe ==
    /\ pc = "readPromise"
    /\ ~putCalled
    /\ writeTimeout' = "armed"
    /\ writeState' = "pending"
    /\ putCalled' = TRUE
    /\ UNCHANGED <<relayVars, endVars, pc, loginSuccess, probeVars, readVars, writeError,
                   reportVars, exitCode, onCalled, deliveryVars, ackVars,
                   readAwaited>>

\* lines 190-203: the executor of the write promise arms the write timer and
\* calls dataNode.put; runTests then awaits the write promise
Put ==
    /\ pc = "put"
    /\ writeTimeout' = "armed"
    /\ writeState' = "pending"
    /\ putCalled' = TRUE
    /\ pc' = "awaitWrite"
    /\ UNCHANGED <<relayVars, endVars, loginSuccess, probeVars, readVars, writeError, reportVars,
                   exitCode, onCalled, deliveryVars, ackVars, readAwaited>>

(***************************************************************************)
(* The event loop.  A settled promise that runTests awaits resumes it      *)
(* before any further callback or timer runs; callbacks and timers run     *)
(* only while runTests is suspended.                                       *)
(***************************************************************************)
Settled(state) == state \in {"resolved", "rejected"}

Resumable ==
    \/ pc = "awaitWrite" /\ Settled(writeState)
    \/ pc = "awaitRead" /\ Settled(readState)

Suspended ==
    /\ pc \in {"awaitWrite", "wait1000", "awaitRead", "relogin", "cleanup",
               "finalWait"}
    /\ ~Resumable

\* the store invokes the subscription callback (lines 126-179)
Deliver ==
    /\ Suspended
    /\ registered
    /\ nInvocations < MaxInvocations
    /\ \E value \in Values, throws \in BOOLEAN :
         /\ SetReadSide(Callback(ReadSide, value, throws))
         /\ firstDelivered' = NoteDelivered(firstDelivered, value)
    /\ nInvocations' = nInvocations + 1
    /\ nLate' = IF called THEN nLate + 1 ELSE nLate
    /\ UNCHANGED <<relayVars, endVars, pc, loginSuccess, probeVars, readError, writeVars,
                   reportVars, exitCode, onCalled, putCalled, ackVars,
                   readAwaited>>

\* What Node does with a promise that rejects while no handler is attached:
\* "throw" (the default since Node 15) ends the process with status 1,
\* "warn" (older versions) prints a warning and goes on.
UnhandledRejectionModes == {"throw", "warn"}

\* lines 120-122: the read timer fires.  Timers fire in the order of their
\* deadlines, so it waits for a pending timer that was armed for less.  The
\* rejection is handled only if runTests has reached "await readPromise".
ReadTimerFire ==
    /\ Suspended
    /\ readTimeout = "armed"
    /\ writeTimeout = "armed" => READ_TIMEOUT_MS < WRITE_TIMEOUT_MS
    /\ pc = "wait1000" => READ_TIMEOUT_MS < WRITE_TIMEOUT_MS + SYNC_WAIT_MS
    /\ readTimeout' = "fired"
    /\ IF readState = "pending"
       THEN readState' = "rejected" /\ readError' = ReadTimeoutMessage
       ELSE UNCHANGED <<readState, readError>>
    /\ IF readState = "pending" /\ ~readAwaited
       THEN \E mode \in UnhandledRejectionModes :
              IF mode = "throw"
              THEN pc' = "crashed" /\ exitCode' = 1
              ELSE UNCHANGED <<pc, exitCode>>
       ELSE UNCHANGED <<pc, exitCode>>
    /\ UNCHANGED <<relayVars, endVars, loginSuccess, probeVars, called, unsubscribe,
                   registered, readResult, unsubCalls, offCalls, deregThrew,
                   accepted, argAfter, writeVars, reportVars, onCalled,
                   putCalled, deliveryVars, ackVars, readAwaited>>

\* mutant of AckDelivered: the ack callback does not cancel the write timer
AckDelivered_NoClear ==
    /\ Suspended
    /\ putCalled
    /\ nAcks < MaxAcks
    /\ \E ack \in AckValues :
         /\ firstAck' = IF nAcks = 0 THEN ack ELSE firstAck
         /\ IF writeState = "pending"
            THEN IF IsErrorAck(ack)
                 THEN writeState' = "rejected" /\ writeError' = ack.s
                 ELSE writeState' = "resolved" /\ UNCHANGED writeError
            ELSE UNCHANGED <<writeState, writeError>>
    /\ nAcks' = nAcks + 1
    /\ UNCHANGED <<relayVars, endVars, pc, loginSuccess, probeVars, readVars, reportVars,
                   exitCode, onCalled, putCalled, deliveryVars, readAwaited,
                   writeTimeout>>

\* lines 195-202: the store invokes the ack callback of put
AckDelivered ==
    /\ Suspended
    /\ putCalled
    /\ nAcks < MaxAcks
    /\ \E ack \in AckValues :
         /\ firstAck' = IF nAcks = 0 THEN ack ELSE firstAck
         /\ IF writeState = "pending"
            THEN IF IsErrorAck(ack)
                 THEN writeState' = "rejected" /\ writeError' = ack.s
                 ELSE writeState' = "resolved" /\ UNCHANGED writeError
            ELSE UNCHANGED <<writeState, writeError>>
    /\ writeTimeout' = ClearTimeout(writeTimeout)
    /\ nAcks' = nAcks + 1
    /\ UNCHANGED <<relayVars, endVars, pc, loginSuccess, probeVars, readVars, reportVars,
                   exitCode, onCalled, putCalled, deliveryVars, readAwaited>>

\* lines 191-193: the write timer fires
WriteTimerFire ==
    /\ Suspended
    /\ writeTimeout = "armed"
    /\ writeTimeout' = "fired"
    /\ IF writeState = "pending"
       THEN writeState' = "rejected" /\ writeError' = WriteTimeoutMessage
       ELSE UNCHANGED <<writeState, writeError>>
    /\ UNCHANGED <<relayVars, endVars, pc, loginSuccess, probeVars, readVars, reportVars,
                   exitCode, onCalled, putCalled, deliveryVars, ackVars,
                   readAwaited>>

(***************************************************************************)
(* runTests resumes.                                                       *)
(***************************************************************************)
\* lines 205-210: the write promise resolved; wait(1000) is started
WriteConfirmed ==
    /\ pc = "awaitWrite"
    /\ writeState = "resolved"
    /\ pc' = "wait1000"
    /\ UNCHANGED <<relayVars, endVars, loginSuccess, probeVars, readVars, writeVars, reportVars,
                   exitCode, onCalled, putCalled, deliveryVars, ackVars,
                   readAwaited>>

\* lines 225-229: the write promise rejected; the outer catch of the probe
WriteFailed ==
    /\ pc = "awaitWrite"
    /\ writeState = "rejected"
    /\ reported' = "writeError"
    /\ reportedError' = writeError
    /\ pc' = "step8"
    /\ UNCHANGED <<relayVars, endVars, loginSuccess, probeVars, readVars, writeVars,
                   reportedData, exitCode, onCalled, putCalled, deliveryVars,
                   ackVars, readAwaited>>

\* lines 210-215: wait(1000) is over; runTests awaits readPromise
SyncWaitOver ==
    /\ pc = "wait1000"
    /\ pc' = "awaitRead"
    /\ readAwaited' = TRUE
    /\ UNCHANGED <<relayVars, endVars, loginSuccess, probeVars, readVars, writeVars, reportVars,
                   exitCode, onCalled, putCalled, deliveryVars, ackVars>>

\* lines 215-218: readPromise resolved
ReadSucceeded ==
    /\ pc = "awaitRead"
    /\ readState = "resolved"
    /\ reported' = "readOk"
    /\ reportedData' = readResult
    /\ pc' = "step8"
    /\ UNCHANGED <<relayVars, endVars, loginSuccess, probeVars, readVars, writeVars,
                   reportedError, exitCode, onCalled, putCalled, deliveryVars,
                   ackVars, readAwaited>>

\* mutant of ReadFailed: without the inner try/catch the rejection reaches the
\* outer catch of the probe and is logged as a write error
ReadFailed_AsWriteError ==
    /\ pc = "awaitRead"
    /\ readState = "rejected"
    /\ reported' = "writeError"
    /\ reportedError' = readError
    /\ pc' = "step8"
    /\ UNCHANGED <<relayVars, endVars, loginSuccess, probeVars, readVars, writeVars,
                   reportedData, exitCode, onCalled, putCalled, deliveryVars,
                   ackVars, readAwaited>>

\* lines 219-224: readPromise rejected; the inner catch
ReadFailed ==
    /\ pc = "awaitRead"
    /\ readState = "rejected"
    /\ reported' = "readError"
    /\ reportedError' = readError
    /\ pc' = "step8"
    /\ UNCHANGED <<relayVars, endVars, loginSuccess, probeVars, readVars, writeVars,
                   reportedData, exitCode, onCalled, putCalled, deliveryVars,
                   ackVars, readAwaited>>

\* lines 231-268: step 8 and the start of step 9, up to "await shogun.logout()"
ProfileAndEvents ==
    /\ pc = "step8"
    /\ pc' = "relogin"
    /\ UNCHANGED <<relayVars, endVars, loginSuccess, probeVars, readVars, writeVars, reportVars,
                   exitCode, onCalled, putCalled, deliveryVars, ackVars,
                   readAwaited>>

\* lines 258-282 and 289-293 after a failed login: step 9 without the second
\* login; the finally block calls shogun.logout()
EventsOnly ==
    /\ pc = "step9"
    /\ pc' = "cleanup"
    /\ cleanupLogout' = "pending"
    /\ UNCHANGED <<relayVars, loginSuccess, probeVars, readVars, writeVars,
                   reportVars, exitCode, onCalled, putCalled, deliveryVars,
                   ackVars, readAwaited>>

\* lines 268-293: logout, login and the waits of step 9 are over, or one of
\* them threw into the catch at line 284, which only logs; either way the
\* finally block calls shogun.logout()
ReloginOver ==
    /\ pc = "relogin"
    /\ pc' = "cleanup"
    /\ cleanupLogout' = "pending"
    /\ UNCHANGED <<relayVars, loginSuccess, probeVars, readVars, writeVars, reportVars,
                   exitCode, onCalled, putCalled, deliveryVars, ackVars,
                   readAwaited>>

\* lines 291-301: the cleanup logout returns or throws (ignored); wait(500)
CleanupLogout ==
    /\ pc = "cleanup"
    /\ cleanupLogout' \in {"ok", "threw"}
    /\ pc' = "finalWait"
    /\ UNCHANGED <<relayVars, loginSuccess, probeVars, readVars, writeVars,
                   reportVars, exitCode, onCalled, putCalled, deliveryVars,
                   ackVars, readAwaited>>

\* lines 301-303: process.exit(0)
Exit ==
    /\ pc = "finalWait"
    /\ exitCode' = 0
    /\ pc' = "exited"
    /\ UNCHANGED <<relayVars, endVars, loginSuccess, probeVars, readVars, writeVars,
                   reportVars, onCalled, putCalled, deliveryVars, ackVars,
                   readAwaited>>

Next ==
    \/ LoginResult
    \/ BuildProbe
    \/ BuildProbeThrows
    \/ Subscribe
    \/ Put
    \/ Deliver
    \/ ReadTimerFire
    \/ AckDelivered
    \/ WriteTimerFire
    \/ WriteConfirmed
    \/ WriteFailed
    \/ SyncWaitOver
    \/ ReadSucceeded
    \/ ReadFailed
    \/ ProfileAndEvents
    \/ EventsOnly
    \/ ReloginOver
    \/ CleanupLogout
    \/ Exit

Spec == Init /\ [][Next]_vars

(***************************************************************************)
(* The relay server as a program of its own: the module body (lines        *)
(* 318-346), its HTTP listener and the signal handler (lines 349-358).     *)
(* server.close(cb) stops the listener from accepting and runs cb on the   *)
(* 'close' event, which is emitted once no connection is left; on a        *)
(* listener that is closing already, cb is again attached to 'close'.      *)
(***************************************************************************)
scriptVars == <<pc, loginSuccess, probeVars, readVars, writeVars, reportVars,
                exitCode, onCalled, putCalled, deliveryVars, ackVars,
                readAwaited, endVars>>

\* lines 318-346: config, app.listen, Holster(...)
RelayStart ==
    /\ relayPc = "start"
    /\ config' = RelayConfig(env)
    /\ holsterFile' = HolsterFile(RelayConfig(env))
    /\ server' = "listening"
    /\ relayPc' = "running"
    /\ UNCHANGED <<scriptVars, env, connections, closeCallbacks, signals,
                   relayExit>>

\* a client connects to the listener
Connect ==
    /\ relayPc = "running"
    /\ server = "listening"
    /\ connections < MaxOpen
    /\ connections' = connections + 1
    /\ UNCHANGED <<scriptVars, relayPc, env, config, holsterFile, server,
                   closeCallbacks, signals, relayExit>>

\* a connection ends
Disconnect ==
    /\ relayPc = "running"
    /\ connections > 0
    /\ connections' = connections - 1
    /\ UNCHANGED <<scriptVars, relayPc, env, config, holsterFile, server,
                   closeCallbacks, signals, relayExit>>

\* mutant of Shutdown: on a listener that is closing already, the callback
\* of server.close runs at once
Shutdown_SecondExitsAtOnce ==
    /\ relayPc = "running"
    /\ Len(signals) < MaxSignals
    /\ \E sig \in TerminationSignals : signals' = Append(signals, sig)
    /\ IF server = "listening"
       THEN /\ server' = "closing"
            /\ closeCallbacks' = closeCallbacks + 1
            /\ UNCHANGED <<relayPc, relayExit>>
       ELSE /\ relayExit' = 0
            /\ relayPc' = "exited"
            /\ UNCHANGED <<server, closeCallbacks>>
    /\ UNCHANGED <<scriptVars, env, config, holsterFile, connections>>

\* lines 349-358: SIGTERM or SIGINT runs shutdown, which calls
\* server.close(callback)
Shutdown ==
    /\ relayPc = "running"
    /\ Len(signals) < MaxSignals
    /\ \E sig \in TerminationSignals : signals' = Append(signals, sig)
    /\ server' = IF server = "listening" THEN "closing" ELSE server
    /\ closeCallbacks' = closeCallbacks + 1
    /\ UNCHANGED <<scriptVars, relayPc, env, config, holsterFile, connections,
                   relayExit>>

\* lines 351-354: the listener has closed and emits 'close'; the first
\* callback attached to it calls process.exit(0)
CloseCompleted ==
    /\ relayPc = "running"
    /\ server = "closing"
    /\ connections = 0
    /\ server' = "closed"
    /\ IF closeCallbacks > 0
       THEN relayExit' = 0 /\ relayPc' = "exited"
       ELSE UNCHANGED <<relayExit, relayPc>>
    /\ closeCallbacks' = 0
    /\ UNCHANGED <<scriptVars, env, config, holsterFile, connections, signals>>

\* the relay is run; the test script of the same file is not
RelayInit ==
    /\ ScriptInit
    /\ RelayLoaded("start")
    /\ env \in Environments

RelayNext ==
    \/ RelayStart
    \/ Connect
    \/ Disconnect
    \/ Shutdown
    \/ CloseCompleted

RelaySpec == RelayInit /\ [][RelayNext]_vars

(***************************************************************************)
(* Properties.                                                             *)
(***************************************************************************)
Releases == unsubCalls + offCalls

\* the content of a delivered value: an object without its metadata keys,
\* any other value as it is
Content(value) ==
    IF value.kind = "object"
    THEN Object([k \in DOMAIN value.f \ MetadataKeys |-> value.f[k]])
    ELSE value

\* C1: the read subscription is registered before the write is issued: in no
\* reachable state has dataNode.put been called while dataNode.on(callback)
\* has not yet been called.
C1_SubscribeBeforeWrite == putCalled => onCalled

\* C1 witness: the write is in flight and the callback is on the node
C1_Witness == pc = "awaitWrite" /\ putCalled /\ registered /\ writeState = "pending"

\* C2 as stated: whenever the read wait has resolved, its result is the
\* content of the first qualifying value of the invocation sequence.
C2_FirstQualifyingWins ==
    readState = "resolved" => readResult = Content(firstDelivered)

\* C3 as stated, for a node that has off(callback): whenever the read wait
\* has ended, by acceptance or by the read timer, the subscription has been
\* released exactly once.
C3_ReleasedExactlyOnce ==
    (Settled(readState) /\ hasOff) => Releases = 1

\* a string that starts with "error", decided character by character
ErrorString(ack) ==
    /\ ack.kind = "string"
    /\ Len(ack.s) >= 5
    /\ ack.s[1] = "e" /\ ack.s[2] = "r" /\ ack.s[3] = "r"
    /\ ack.s[4] = "o" /\ ack.s[5] = "r"

PastWriteAwait == pc \notin {"step5", "step6", "step9", "readPromise", "put",
                             "awaitWrite"}

\* C4: an ack that settles the write wait (the first ack, arriving before the
\* write timer has fired) and is a string starting with "error" rejects the
\* write with that string; the caller then reports a write error carrying it
\* and never awaits the read wait, so no read result or read error is
\* reported; any other such ack, null, undefined and non-strings included,
\* confirms the write.
C4_ErrorAckRejectsWrite ==
    /\ (firstAck # NoAck /\ writeTimeout # "fired" /\ ErrorString(firstAck)) =>
          /\ writeState = "rejected"
          /\ writeError = firstAck.s
          /\ ~readAwaited
          /\ reported \in {"none", "writeError"}
          /\ PastWriteAwait => (reported = "writeError" /\ reportedError = firstAck.s)
    /\ (firstAck # NoAck /\ writeTimeout # "fired" /\ ~ErrorString(firstAck)) =>
          /\ writeState = "resolved"
          /\ reported # "writeError"
          /\ PastWriteAwait => pc = "wait1000" \/ readAwaited

\* C4 witness: an error ack was reported as the write error and the run went
\* on without awaiting the read wait
C4_Witness ==
    /\ reported = "writeError"
    /\ ErrorString(firstAck)
    /\ reportedError = firstAck.s
    /\ pc = "relogin"
    /\ ~readAwaited

\* C5: the write wait settles once, on whichever of the ack and the write
\* timer comes first: after an ack the timer is cancelled and never fires; a
\* timer that fires rejects with 'Write timeout', which no error ack
\* produces; once settled, neither a later ack nor the timer changes the
\* outcome.
C5_WriteSettlesOnce ==
    /\ [](/\ firstAck # NoAck => writeTimeout \in {"cleared", "fired"}
          /\ writeTimeout = "cleared" => (firstAck # NoAck /\ Settled(writeState))
          /\ writeTimeout = "fired" =>
                (writeState = "rejected" /\ writeError = WriteTimeoutMessage)
          /\ (writeState = "rejected" /\ writeTimeout # "fired") =>
                (writeError = firstAck.s /\ writeError # WriteTimeoutMessage)
          /\ writeTimeout = "armed" => writeState = "pending")
    /\ [][/\ Settled(writeState) =>
                (writeState' = writeState /\ writeError' = writeError)
          /\ writeTimeout = "cleared" => writeTimeout' = "cleared"
          /\ writeTimeout = "fired" => writeTimeout' = "fired"]_vars

\* C5 witness: the timer fired first and an ack arrived afterwards
C5_Witness ==
    /\ writeTimeout = "fired"
    /\ firstAck # NoAck
    /\ writeState = "rejected"
    /\ writeError = WriteTimeoutMessage

C7_AcceptanceMatchesPredicate == called <=> (firstDelivered # NoValue)

\* C8: when the store delivers the written record with '_' and '#' added and
\* it is accepted, the read result equals the record on message, timestamp
\* and username and has neither '_' nor '#'; no object the caller obtains or
\* logs has a metadata key.
C8_RoundTrip ==
    /\ (readState = "resolved" /\ accepted = WithMetadata(testData)) =>
          /\ \A k \in ExpectedKeys :
                k \in DOMAIN readResult.f /\ readResult.f[k] = testData.f[k]
          /\ DOMAIN readResult.f = ExpectedKeys
    /\ readState = "resolved" => DOMAIN readResult.f \cap MetadataKeys = {}
    /\ reported = "readOk" =>
          (reportedData = readResult /\ DOMAIN reportedData.f \cap MetadataKeys = {})

\* C8 witness: the stored record came back and was logged as read
C8_Witness ==
    /\ reported = "readOk"
    /\ accepted = WithMetadata(testData)
    /\ reportedData = testData

\* C9: the subscription is released at most once and only with the latch
\* set: an invocation that finds the latch set, or that leaves it unset (a
\* rejected value), calls neither unsubscribe nor off.
C9_ReleaseAtMostOnce ==
    /\ [](Releases <= 1 /\ (Releases > 0 => called))
    /\ [][(called \/ ~called') =>
             (unsubCalls' = unsubCalls /\ offCalls' = offCalls)]_vars

\* C9 witness: after a release, a further invocation found the latch set
C9_Witness == Releases = 1 /\ nLate > 0 /\ called

\* C10: a deregistration that throws while a value is accepted is swallowed:
\* unless the read timer had fired before, the read wait is resolved with that
\* value's content, the read timer is cancelled and stays so, and the caller
\* reports no read error; a write error is reported only for a rejected write.
C10_DeregistrationErrorSwallowed ==
    /\ (deregThrew /\ readTimeout # "fired") =>
          /\ readState = "resolved"
          /\ readResult = Content(accepted)
          /\ readTimeout = "cleared"
          /\ reported # "readError"
          /\ (readAwaited /\ pc # "awaitRead") => reported = "readOk"
    /\ (deregThrew /\ reported = "writeError") => writeState = "rejected"

\* C10 witness: deregistration threw and the read was still reported
C10_Witness == deregThrew /\ reported = "readOk" /\ reportedData = Content(accepted)

\* C14: a release calls the handle returned by dataNode.on if that handle has
\* been stored as a function, and otherwise dataNode.off(callback) if the node
\* has off; never both.  A value accepted inside dataNode.on, before the
\* handle is stored, is released through off.
C14_HandleElseOff ==
    /\ [](~(unsubCalls > 0 /\ offCalls > 0))
    /\ [][/\ (called' /\ ~called) =>
                IF unsubscribe = "fn"
                THEN unsubCalls' = unsubCalls + 1 /\ offCalls' = offCalls
                ELSE IF hasOff
                THEN offCalls' = offCalls + 1 /\ unsubCalls' = unsubCalls
                ELSE unsubCalls' = unsubCalls /\ offCalls' = offCalls
          /\ (pc = "readPromise" /\ called') =>
                (unsubCalls' = 0 /\ offCalls' = IF hasOff THEN 1 ELSE 0)]_vars

\* C14 witness: a value was accepted inside dataNode.on, which then returned
\* a function; the release went through off
C14_Witness ==
    /\ pc = "put"
    /\ called
    /\ unsubscribe = "fn"
    /\ offCalls = 1
    /\ unsubCalls = 0

\* C16: a read wait that was rejected by the read timer stays rejected with
\* the same error and without a result, whatever the callback receives
\* afterwards; a reported read error is not followed by a reported read.
C16_TimeoutIsFinal ==
    /\ [](readState = "rejected" =>
             (readResult = NoValue /\ readError = ReadTimeoutMessage
              /\ reported # "readOk"))
    /\ [][readState = "rejected" =>
             (/\ readState' = "rejected"
              /\ readError' = readError
              /\ readResult' = readResult
              /\ reported = "readError" => reported' = "readError")]_vars

\* C16 witness: after the read timer had fired, the callback received a
\* value it accepts, and the failure stands
C16_Witness ==
    /\ readTimeout = "fired"
    /\ readState = "rejected"
    /\ reported = "readError"
    /\ called
    /\ accepted = WithMetadata(testData)

C11_ProbeFailureHandled ==
    pc \in {"exited", "crashed"} =>
       /\ writeState = "rejected" => reported = "writeError"
       /\ readState = "rejected" => readAwaited
       /\ cleanupLogout \in {"ok", "threw"}
       /\ exitCode = 0

\* C12 as stated: a qualifying value delivered while the write is in flight
\* is accepted at once: the read wait is resolved with its content and the
\* read timer is cancelled before the write wait is over.
C12_EarlyValueRetained ==
    (firstDelivered # NoValue /\ pc \in {"put", "awaitWrite"}) =>
       /\ readState = "resolved"
       /\ readResult = Content(firstDelivered)
       /\ readTimeout \in {"cleared", "fired"}

\* C15 as stated: a read wait rejected by the read timer has been caught and
\* logged as a read error as soon as runTests has run again.
C15_ReadFailureReported ==
    (readState = "rejected" /\ pc # "awaitRead") =>
       (reported = "readError" /\ reportedError = readError)

\* C18 as stated: once the finally block has begun, the process ends with
\* exit status 0 or has not ended yet.
C18_ExitsZeroAfterCleanup ==
    cleanupLogout # "none" =>
       /\ pc \in {"cleanup", "finalWait", "exited"}
       /\ pc = "exited" => exitCode = 0
       /\ pc # "exited" => exitCode = -1

\* C13: after a termination signal the listener is closing or closed; the
\* relay exits only with status 0 and only when the listener has closed; no
\* signal, the first or a later one, makes the process exit in its handler.
C13_ExitAfterClose ==
    /\ [](/\ signals # <<>> => server \in {"closing", "closed"}
          /\ relayExit \in {-1, 0}
          /\ relayExit = 0 => (server = "closed" /\ signals # <<>>)
          /\ server = "closing" => relayExit = -1)
    /\ [][signals' # signals => (relayExit' = -1 /\ server' # "closed")]_vars

\* C13 witness: SIGTERM and SIGINT both arrived while a connection kept the
\* listener from closing, and the relay has exited after the close
C13_Witness ==
    /\ relayExit = 0
    /\ server = "closed"
    /\ Len(signals) = 2
    /\ signals[1] # signals[2]

\* C19 as stated: with HOLSTER_RELAY_STORAGE set to 'false' the store is
\* started without a storage path; with 'true' or unset it is started with
\* the configured path.
C19_StorageToggle ==
    relayPc \in {"running", "exited"} =>
       /\ env.storage = EnvString(<<"f", "a", "l", "s", "e">>) =>
             holsterFile = EnvUnset
       /\ env.storage \in {EnvUnset, EnvString(TrueLiteral)} =>
             (config.storageEnabled
              /\ holsterFile = EnvString(config.storagePath))

====
